---- MODULE Spec2Model ----
(***************************************************************************)
(* Model of the cron expression validator (src/src/validator.py).          *)
(*                                                                         *)
(* A Python str is a sequence of one-character strings.  The validator is  *)
(* a pure function, so the state machine is a caller: Init draws the       *)
(* arguments of one call from a bounded set, and one action per public     *)
(* function applies it and records what the call returned (or that it      *)
(* raised).                                                                *)
(***************************************************************************)
EXTENDS Integers, Sequences, FiniteSets, TLC

VARIABLES pc, fn, arg, start, stop, options, result

vars == <<pc, fn, arg, start, stop, options, result>>

(***************************************************************************)
(* Characters and the str methods the validator uses.                      *)
(***************************************************************************)
Digits == <<"0", "1", "2", "3", "4", "5", "6", "7", "8", "9">>

LowerChars == <<"a", "b", "c", "d", "e", "f", "g", "h", "i", "j", "k", "l", "m",
                "n", "o", "p", "q", "r", "s", "t", "u", "v", "w", "x", "y", "z">>

UpperChars == <<"A", "B", "C", "D", "E", "F", "G", "H", "I", "J", "K", "L", "M",
                "N", "O", "P", "Q", "R", "S", "T", "U", "V", "W", "X", "Y", "Z">>

Range(s) == {s[i] : i \in DOMAIN s}

IsDigit(c) == c \in Range(Digits)

IsLower(c) == c \in Range(LowerChars)

IsUpper(c) == c \in Range(UpperChars)

IsAlpha(c) == IsLower(c) \/ IsUpper(c)

IsSpace(c) == c \in {" ", "\t", "\n"}

DigitVal(c) == (CHOOSE i \in DOMAIN Digits : Digits[i] = c) - 1

\* str.lower(), one character
LowerChar(c) ==
    IF IsUpper(c) THEN LowerChars[CHOOSE i \in DOMAIN UpperChars : UpperChars[i] = c]
    ELSE c

\* str.upper(), one character
UpperChar(c) ==
    IF IsLower(c) THEN UpperChars[CHOOSE i \in DOMAIN LowerChars : LowerChars[i] = c]
    ELSE c

\* str.lower()
Lower(s) == [i \in DOMAIN s |-> LowerChar(s[i])]

RECURSIVE LStrip(_)
LStrip(s) == IF s # <<>> /\ IsSpace(Head(s)) THEN LStrip(Tail(s)) ELSE s

RECURSIVE RStrip(_)
RStrip(s) ==
    IF s # <<>> /\ IsSpace(s[Len(s)]) THEN RStrip(SubSeq(s, 1, Len(s) - 1)) ELSE s

\* str.strip()
Strip(s) == RStrip(LStrip(s))

\* str.endswith(c), c one character
EndsWith(s, c) == s # <<>> /\ s[Len(s)] = c

\* str.split(sep), sep one character: empty pieces are kept
RECURSIVE Split(_, _)
Split(s, sep) ==
    IF \E i \in DOMAIN s : s[i] = sep
    THEN LET i == CHOOSE k \in DOMAIN s : s[k] = sep /\ \A j \in 1..(k - 1) : s[j] # sep
         IN  <<SubSeq(s, 1, i - 1)>> \o Split(SubSeq(s, i + 1, Len(s)), sep)
    ELSE <<s>>

\* str.split() without a separator: runs of whitespace separate, no empty pieces
RECURSIVE SplitWhitespace(_)
SplitWhitespace(s) ==
    LET t == LStrip(s) IN
    IF t = <<>> THEN <<>>
    ELSE LET n == IF \E i \in DOMAIN t : IsSpace(t[i])
                  THEN (CHOOSE k \in DOMAIN t :
                            IsSpace(t[k]) /\ \A j \in 1..(k - 1) : ~IsSpace(t[j])) - 1
                  ELSE Len(t)
         IN  <<SubSeq(t, 1, n)>> \o SplitWhitespace(SubSeq(t, n + 1, Len(t)))

\* the value of a string of decimal digits
RECURSIVE DecimalValue(_)
DecimalValue(s) ==
    IF s = <<>> THEN 0
    ELSE 10 * DecimalValue(SubSeq(s, 1, Len(s) - 1)) + DigitVal(s[Len(s)])

(***************************************************************************)
(* Numeric parser.  The float the parser returns is a natural number or    *)
(* NaN; every comparison with NaN is false.                                *)
(***************************************************************************)
NaN == -1

\* re.match(r"^\d+$", value): one or more digits, '$' also matches before a final newline
MatchDigits(value) ==
    LET body == IF EndsWith(value, "\n") THEN SubSeq(value, 1, Len(value) - 1) ELSE value
    IN  body # <<>> /\ \A i \in DOMAIN body : IsDigit(body[i])

\* float(value) raises ValueError unless the stripped string is a float literal:
\* an optionally signed digit string, "nan", "inf" or "infinity" (in any case)
FloatRaises(value) ==
    LET t == Lower(Strip(value))
        u == IF t # <<>> /\ Head(t) \in {"-", "+"} THEN Tail(t) ELSE t
    IN  ~ \/ u # <<>> /\ \A i \in DOMAIN u : IsDigit(u[i])
          \/ u \in {<<"n", "a", "n">>, <<"i", "n", "f">>,
                    <<"i", "n", "f", "i", "n", "i", "t", "y">>}

\* float(value) of a digit string
Float(value) == DecimalValue(Strip(value))

safe_parse_int__unguarded_raises(value) == FloatRaises(value)

safe_parse_int_raises(value) == MatchDigits(value) /\ FloatRaises(value)

safe_parse_int(value) == IF MatchDigits(value) THEN Float(value) ELSE NaN

is_wildcard(value) == value = <<"*">>

is_question_mark(value) == value = <<"?">>

\* float comparisons: false when an operand is NaN
FloatGe(a, b) == a # NaN /\ b # NaN /\ a >= b

FloatLe(a, b) == a # NaN /\ b # NaN /\ a <= b

FloatGt(a, b) == a # NaN /\ b # NaN /\ a > b

FloatLt(a, b) == a # NaN /\ b # NaN /\ a < b

is_in_range__exclusive_stop(value, lo, hi) == FloatGe(value, lo) /\ FloatLt(value, hi)

is_in_range(value, lo, hi) == FloatGe(value, lo) /\ FloatLe(value, hi)

(***************************************************************************)
(* Range/step grammar engine.                                              *)
(***************************************************************************)
is_valid_range__no_order(value, lo, hi) ==
    LET sides == Split(value, "-") IN
    IF Len(sides) = 1
    THEN is_wildcard(value) \/ is_in_range(safe_parse_int(value), lo, hi)
    ELSE IF Len(sides) = 2
    THEN LET small == safe_parse_int(sides[1])
             big == safe_parse_int(sides[2])
         IN  is_in_range(small, lo, hi) /\ is_in_range(big, lo, hi)
    ELSE FALSE

is_valid_range(value, lo, hi) ==
    LET sides == Split(value, "-") IN
    IF Len(sides) = 1
    THEN is_wildcard(value) \/ is_in_range(safe_parse_int(value), lo, hi)
    ELSE IF Len(sides) = 2
    THEN LET small == safe_parse_int(sides[1])
             big == safe_parse_int(sides[2])
         IN  FloatLe(small, big) /\ is_in_range(small, lo, hi) /\ is_in_range(big, lo, hi)
    ELSE FALSE

is_valid_range_raises(value) ==
    LET sides == Split(value, "-") IN
    IF Len(sides) = 1
    THEN ~is_wildcard(value) /\ safe_parse_int_raises(value)
    ELSE IF Len(sides) = 2
    THEN safe_parse_int_raises(sides[1]) \/ safe_parse_int_raises(sides[2])
    ELSE FALSE

\* the absent step (None)
None == <<"None">>

\* re.search(r"[^\d]", value) is None
NoNonDigit(value) == \A i \in DOMAIN value : IsDigit(value[i])

is_valid_step__allow_zero(value) ==
    value = None \/ (NoNonDigit(value) /\ FloatGe(safe_parse_int(value), 0))

is_valid_step(value) ==
    value = None \/ (NoNonDigit(value) /\ FloatGt(safe_parse_int(value), 0))

is_valid_step_raises(value) ==
    value # None /\ NoNonDigit(value) /\ safe_parse_int_raises(value)

\* re.search(r"[^\d,/*-]", value) is not None
HasForbiddenChar(value) ==
    \E i \in DOMAIN value : ~(IsDigit(value[i]) \/ value[i] \in {",", "/", "*", "-"})

\* the outcome of one pass of the loop body: "return" (return False), "raise" or "next"
ConditionStep(condition, lo, hi) ==
    LET splits == Split(condition, "/")
        left == splits[1]
        right == IF Len(splits) = 2 THEN splits[2] ELSE None
    IN  IF EndsWith(Strip(condition), "/") THEN "return"
        ELSE IF Len(splits) > 2 THEN "return"
        ELSE IF is_valid_range_raises(left) THEN "raise"
        ELSE IF ~is_valid_range(left, lo, hi) THEN "return"
        ELSE IF is_valid_step_raises(right) THEN "raise"
        ELSE IF ~is_valid_step(right) THEN "return"
        ELSE "next"

\* the for loop of validate_for_range over conditions[i..]
RECURSIVE ConditionLoop(_, _, _, _)
ConditionLoop(conditions, i, lo, hi) ==
    IF i > Len(conditions) THEN "true"
    ELSE LET o == ConditionStep(conditions[i], lo, hi) IN
         IF o = "next" THEN ConditionLoop(conditions, i + 1, lo, hi)
         ELSE IF o = "return" THEN "false"
         ELSE "raise"

validate_for_range(value, lo, hi) ==
    IF HasForbiddenChar(value) THEN FALSE
    ELSE ConditionLoop(Split(value, ","), 1, lo, hi) = "true"

validate_for_range_raises(value, lo, hi) ==
    ~HasForbiddenChar(value) /\ ConditionLoop(Split(value, ","), 1, lo, hi) = "raise"

(***************************************************************************)
(* Field validators.                                                       *)
(***************************************************************************)
has_valid_seconds(seconds) == validate_for_range(seconds, 0, 59)

has_valid_seconds_raises(seconds) == validate_for_range_raises(seconds, 0, 59)

has_valid_minutes(minutes) == validate_for_range(minutes, 0, 59)

has_valid_minutes_raises(minutes) == validate_for_range_raises(minutes, 0, 59)

has_valid_hours(hours) == validate_for_range(hours, 0, 23)

has_valid_hours_raises(hours) == validate_for_range_raises(hours, 0, 23)

has_valid_days__blank_always(days, allow_blank_day) ==
    is_question_mark(days) \/ validate_for_range(days, 1, 31)

has_valid_days(days, allow_blank_day) ==
    (allow_blank_day /\ is_question_mark(days)) \/ validate_for_range(days, 1, 31)

has_valid_days_raises(days, allow_blank_day) ==
    ~(allow_blank_day /\ is_question_mark(days)) /\ validate_for_range_raises(days, 1, 31)

month_alias ==
    <<"j", "a", "n">> :> <<"1">> @@
    <<"f", "e", "b">> :> <<"2">> @@
    <<"m", "a", "r">> :> <<"3">> @@
    <<"a", "p", "r">> :> <<"4">> @@
    <<"m", "a", "y">> :> <<"5">> @@
    <<"j", "u", "n">> :> <<"6">> @@
    <<"j", "u", "l">> :> <<"7">> @@
    <<"a", "u", "g">> :> <<"8">> @@
    <<"s", "e", "p">> :> <<"9">> @@
    <<"o", "c", "t">> :> <<"1", "0">> @@
    <<"n", "o", "v">> :> <<"1", "1">> @@
    <<"d", "e", "c">> :> <<"1", "2">>

weekdays_alias ==
    <<"s", "u", "n">> :> <<"0">> @@
    <<"m", "o", "n">> :> <<"1">> @@
    <<"t", "u", "e">> :> <<"2">> @@
    <<"w", "e", "d">> :> <<"3">> @@
    <<"t", "h", "u">> :> <<"4">> @@
    <<"f", "r", "i">> :> <<"5">> @@
    <<"s", "a", "t">> :> <<"6">>

\* dict.get(key, default)
DictGet(table, key, default) == IF key \in DOMAIN table THEN table[key] ELSE default

\* re.sub(r"[a-z]{3}", replace_alias, s): leftmost non-overlapping matches of three
\* lower-case letters, each replaced by table.get(match.lower(), match)
RECURSIVE ReplaceAlias(_, _)
ReplaceAlias(s, table) ==
    IF s = <<>> THEN <<>>
    ELSE IF Len(s) >= 3 /\ IsLower(s[1]) /\ IsLower(s[2]) /\ IsLower(s[3])
    THEN LET match == SubSeq(s, 1, 3)
         IN  DictGet(table, Lower(match), match) \o ReplaceAlias(SubSeq(s, 4, Len(s)), table)
    ELSE <<Head(s)>> \o ReplaceAlias(Tail(s), table)

\* re.search(r"\/[a-zA-Z]", s) is not None
HasSlashLetter(s) == \E i \in 1..(Len(s) - 1) : s[i] = "/" /\ IsAlpha(s[i + 1])

\* the string has_valid_months hands to the grammar engine
RemappedMonths(months, alias) ==
    IF alias THEN ReplaceAlias(Lower(months), month_alias) ELSE months

has_valid_months__no_lower(months, alias) ==
    IF HasSlashLetter(months) THEN FALSE
    ELSE validate_for_range(IF alias THEN ReplaceAlias(months, month_alias) ELSE months, 1, 12)

has_valid_months(months, alias) ==
    IF HasSlashLetter(months) THEN FALSE
    ELSE validate_for_range(RemappedMonths(months, alias), 1, 12)

has_valid_months_raises(months, alias) ==
    ~HasSlashLetter(months) /\ validate_for_range_raises(RemappedMonths(months, alias), 1, 12)

\* the string has_valid_weekdays splits on '#' and hands to the grammar engine
RemappedWeekdays(weekdays, alias) ==
    IF alias THEN ReplaceAlias(Lower(weekdays), weekdays_alias) ELSE weekdays

MaxWeekdayNum__always_seven(allow_seven_as_sunday) == 7

MaxWeekdayNum(allow_seven_as_sunday) == IF allow_seven_as_sunday THEN 7 ELSE 6

has_valid_weekdays(weekdays, opts) ==
    LET allow_blank_day == opts.allowBlankDay
        alias == opts.alias
        allow_seven_as_sunday == opts.allowSevenAsSunday
        allow_nth_weekday_of_month == opts.allowNthWeekdayOfMonth
        remapped_weekdays == RemappedWeekdays(weekdays, alias)
        max_weekday_num == MaxWeekdayNum(allow_seven_as_sunday)
        split_by_hash == Split(remapped_weekdays, "#")
    IN  IF allow_blank_day /\ is_question_mark(weekdays) THEN TRUE
        ELSE IF ~allow_blank_day /\ is_question_mark(weekdays) THEN FALSE
        ELSE IF HasSlashLetter(weekdays) THEN FALSE
        ELSE IF allow_nth_weekday_of_month /\ Len(split_by_hash) >= 2
        THEN IF Len(split_by_hash) > 2 THEN FALSE
             ELSE /\ is_in_range(safe_parse_int(split_by_hash[2]), 1, 5)
                  /\ is_in_range(safe_parse_int(split_by_hash[1]), 0, max_weekday_num)
        ELSE validate_for_range(remapped_weekdays, 0, max_weekday_num)

has_valid_weekdays_raises(weekdays, opts) ==
    LET remapped_weekdays == RemappedWeekdays(weekdays, opts.alias)
        max_weekday_num == MaxWeekdayNum(opts.allowSevenAsSunday)
        split_by_hash == Split(remapped_weekdays, "#")
    IN  IF is_question_mark(weekdays) THEN FALSE
        ELSE IF HasSlashLetter(weekdays) THEN FALSE
        ELSE IF opts.allowNthWeekdayOfMonth /\ Len(split_by_hash) >= 2
        THEN IF Len(split_by_hash) > 2 THEN FALSE
             ELSE \/ safe_parse_int_raises(split_by_hash[2])
                  \/ /\ is_in_range(safe_parse_int(split_by_hash[2]), 1, 5)
                     /\ safe_parse_int_raises(split_by_hash[1])
        ELSE validate_for_range_raises(remapped_weekdays, 0, max_weekday_num)

has_compatible_day_format__always(days, weekdays, allow_blank_day) == TRUE

has_compatible_day_format(days, weekdays, allow_blank_day) ==
    ~(allow_blank_day /\ is_question_mark(days) /\ is_question_mark(weekdays))

(***************************************************************************)
(* Top-level validator.                                                    *)
(***************************************************************************)
split_cron(cron) == SplitWhitespace(Strip(cron))

default_options ==
    [alias |-> FALSE, seconds |-> FALSE, allowBlankDay |-> FALSE,
     allowSevenAsSunday |-> FALSE, allowNthWeekdayOfMonth |-> FALSE]

\* the five fields left after the seconds field is popped
FiveFields(splits) == IF Len(splits) = 6 THEN Tail(splits) ELSE splits

\* the field count is rejected by the guard before any field is looked at
BadFieldCount(splits, opts) ==
    Len(splits) > (IF opts.seconds THEN 6 ELSE 5) \/ Len(splits) < 5

is_valid_cron__pop_when_seconds(cron, opts) ==
    LET splits == split_cron(cron)
        rest == IF opts.seconds THEN Tail(splits) ELSE splits
    IN  IF BadFieldCount(splits, opts) THEN FALSE
        ELSE IF Len(rest) # 5 THEN FALSE
        ELSE /\ (opts.seconds => has_valid_seconds(splits[1]))
             /\ has_valid_minutes(rest[1])
             /\ has_valid_hours(rest[2])
             /\ has_valid_days(rest[3], opts.allowBlankDay)
             /\ has_valid_months(rest[4], opts.alias)
             /\ has_valid_weekdays(rest[5], opts)
             /\ has_compatible_day_format(rest[3], rest[5], opts.allowBlankDay)

is_valid_cron__no_upper_guard(cron, opts) ==
    LET splits == split_cron(cron)
        rest == FiveFields(splits)
    IN  IF Len(splits) < 5 THEN FALSE
        ELSE IF Len(rest) # 5 THEN FALSE
        ELSE /\ (Len(splits) = 6 => has_valid_seconds(splits[1]))
             /\ has_valid_minutes(rest[1])
             /\ has_valid_hours(rest[2])
             /\ has_valid_days(rest[3], opts.allowBlankDay)
             /\ has_valid_months(rest[4], opts.alias)
             /\ has_valid_weekdays(rest[5], opts)
             /\ has_compatible_day_format(rest[3], rest[5], opts.allowBlankDay)

is_valid_cron(cron, opts) ==
    LET splits == split_cron(cron)
        rest == FiveFields(splits)
    IN  IF BadFieldCount(splits, opts) THEN FALSE
        ELSE IF Len(rest) # 5 THEN FALSE
        ELSE /\ (Len(splits) = 6 => has_valid_seconds(splits[1]))
             /\ has_valid_minutes(rest[1])
             /\ has_valid_hours(rest[2])
             /\ has_valid_days(rest[3], opts.allowBlankDay)
             /\ has_valid_months(rest[4], opts.alias)
             /\ has_valid_weekdays(rest[5], opts)
             /\ has_compatible_day_format(rest[3], rest[5], opts.allowBlankDay)

is_valid_cron_raises(cron, opts) ==
    LET splits == split_cron(cron)
        rest == FiveFields(splits)
    IN  IF BadFieldCount(splits, opts) THEN FALSE
        ELSE IF Len(splits) = 6 /\ has_valid_seconds_raises(splits[1]) THEN TRUE
        ELSE IF Len(rest) # 5 THEN FALSE
        ELSE \/ has_valid_minutes_raises(rest[1])
             \/ has_valid_hours_raises(rest[2])
             \/ has_valid_days_raises(rest[3], opts.allowBlankDay)
             \/ has_valid_months_raises(rest[4], opts.alias)
             \/ has_valid_weekdays_raises(rest[5], opts)

(***************************************************************************)
(* The caller.  pc is "call" before the call, "returned" after a return    *)
(* (result holds the value returned) and "raised" after an exception left  *)
(* the function.                                                           *)
(***************************************************************************)
OptionKeys == DOMAIN default_options

\* options = {**default_options, **(partial_options or {})}
MergeOptions(partial_options) ==
    [k \in OptionKeys |->
        IF k \in DOMAIN partial_options THEN partial_options[k] ELSE default_options[k]]

AllOptions ==
    [alias : BOOLEAN, seconds : BOOLEAN, allowBlankDay : BOOLEAN,
     allowSevenAsSunday : BOOLEAN, allowNthWeekdayOfMonth : BOOLEAN]

\* the options has_valid_weekdays reads; seconds is not among them
WeekdayOptions == {o \in AllOptions : ~o.seconds}

Strings(alphabet, n) == UNION {[1..k -> alphabet] : k \in 0..n}

Return(value) == pc' = "returned" /\ result' = value

Raise == pc' = "raised" /\ result' = result

Called(name) == pc = "call" /\ fn = name /\ UNCHANGED <<fn, arg, start, stop, options>>

IsValidCron ==
    /\ Called("is_valid_cron")
    /\ IF is_valid_cron_raises(arg, MergeOptions(options)) THEN Raise
       ELSE Return(is_valid_cron(arg, MergeOptions(options)))

ValidateForRange ==
    /\ Called("validate_for_range")
    /\ IF validate_for_range_raises(arg, start, stop) THEN Raise
       ELSE Return(validate_for_range(arg, start, stop))

HasValidSeconds ==
    /\ Called("has_valid_seconds")
    /\ IF has_valid_seconds_raises(arg) THEN Raise ELSE Return(has_valid_seconds(arg))

HasValidMinutes ==
    /\ Called("has_valid_minutes")
    /\ IF has_valid_minutes_raises(arg) THEN Raise ELSE Return(has_valid_minutes(arg))

HasValidHours ==
    /\ Called("has_valid_hours")
    /\ IF has_valid_hours_raises(arg) THEN Raise ELSE Return(has_valid_hours(arg))

HasValidDays ==
    /\ Called("has_valid_days")
    /\ IF has_valid_days_raises(arg, options.allowBlankDay) THEN Raise
       ELSE Return(has_valid_days(arg, options.allowBlankDay))

HasValidMonths ==
    /\ Called("has_valid_months")
    /\ IF has_valid_months_raises(arg, options.alias) THEN Raise
       ELSE Return(has_valid_months(arg, options.alias))

HasValidWeekdays ==
    /\ Called("has_valid_weekdays")
    /\ IF has_valid_weekdays_raises(arg, options) THEN Raise
       ELSE Return(has_valid_weekdays(arg, options))

(***************************************************************************)
(* SpecRange: validate_for_range on every string of at most MaxLen         *)
(* characters of the grammar's alphabet, under the bounds of the fields.   *)
(***************************************************************************)
MaxLen == 4

RangeAlphabet == {"0", "1", "3", "*", "-", "/", ","}

\* the (start, stop) pairs the field validators pass
FieldBounds == {<<0, 59>>, <<0, 23>>, <<1, 31>>, <<1, 12>>, <<0, 6>>, <<0, 7>>}

InitRange ==
    /\ pc = "call"
    /\ fn = "validate_for_range"
    /\ arg \in Strings(RangeAlphabet, MaxLen)
    /\ \E b \in FieldBounds : start = b[1] /\ stop = b[2]
    /\ options = default_options
    /\ result = FALSE

NextRange == ValidateForRange

SpecRange == InitRange /\ [][NextRange]_vars

\* helpers of the properties
CountChar(s, c) == Cardinality({i \in DOMAIN s : s[i] = c})

IsNumber(s) == s # <<>> /\ \A i \in DOMAIN s : IsDigit(s[i])

FirstIndex(s, c) == CHOOSE k \in DOMAIN s : s[k] = c /\ \A j \in 1..(k - 1) : s[j] # c

Before(s, c) == IF CountChar(s, c) = 0 THEN s ELSE SubSeq(s, 1, FirstIndex(s, c) - 1)

After(s, c) == SubSeq(s, FirstIndex(s, c) + 1, Len(s))

RangeCall == pc = "returned" /\ fn = "validate_for_range"

\* C9: a term without step and with exactly one hyphen, a-b, is valid iff a and b
\* are non-empty digit strings with start <= a <= b <= stop; a term with more than
\* one hyphen is rejected.
C9_RangeRule ==
    (RangeCall /\ CountChar(arg, ",") = 0 /\ CountChar(arg, "/") = 0) =>
        /\ CountChar(arg, "-") = 1 =>
              (result <=> /\ IsNumber(Before(arg, "-"))
                          /\ IsNumber(After(arg, "-"))
                          /\ start <= DecimalValue(Before(arg, "-"))
                          /\ DecimalValue(Before(arg, "-")) <= DecimalValue(After(arg, "-"))
                          /\ DecimalValue(After(arg, "-")) <= stop)
        /\ CountChar(arg, "-") > 1 => ~result

\* an inverted range within the bounds has been rejected
C9_Witness ==
    RangeCall /\ arg = <<"3", "-", "1">> /\ start = 0 /\ stop = 6 /\ ~result

\* C10: a term whose range expression is valid is valid iff it has no slash, or one
\* slash followed by a non-empty digit string of value > 0; a field is valid iff
\* every comma-separated term is valid.
C10_StepRule ==
    RangeCall =>
        /\ (CountChar(arg, ",") = 0 /\ is_valid_range(Before(arg, "/"), start, stop)) =>
              (result <=> \/ CountChar(arg, "/") = 0
                          \/ /\ CountChar(arg, "/") = 1
                             /\ IsNumber(After(arg, "/"))
                             /\ DecimalValue(After(arg, "/")) > 0)
        /\ result <=> \A i \in DOMAIN Split(arg, ",") :
                          validate_for_range(Split(arg, ",")[i], start, stop)

\* a zero step on a wildcard has been rejected
C10_Witness ==
    RangeCall /\ arg = <<"*", "/", "0">> /\ ~result

(***************************************************************************)
(* SpecField: each of the six field validators on every non-empty string   *)
(* of at most MaxDigits decimal digits.                                    *)
(***************************************************************************)
MaxDigits == 2

FieldFunctions ==
    {"has_valid_seconds", "has_valid_minutes", "has_valid_hours",
     "has_valid_days", "has_valid_months", "has_valid_weekdays"}

\* the option records under which a field validator is called: the flags it
\* does not read stay at their defaults
OptionsOf(name) ==
    CASE name = "has_valid_days" ->
             {o \in AllOptions : o = [default_options EXCEPT !.allowBlankDay = o.allowBlankDay]}
      [] name = "has_valid_months" ->
             {o \in AllOptions : o = [default_options EXCEPT !.alias = o.alias]}
      [] name = "has_valid_weekdays" -> WeekdayOptions
      [] OTHER -> {default_options}

InitField ==
    /\ pc = "call"
    /\ fn \in FieldFunctions
    /\ arg \in Strings(Range(Digits), MaxDigits) \ {<<>>}
    /\ options \in OptionsOf(fn)
    /\ start = 0
    /\ stop = 0
    /\ result = FALSE

NextField ==
    \/ HasValidSeconds
    \/ HasValidMinutes
    \/ HasValidHours
    \/ HasValidDays
    \/ HasValidMonths
    \/ HasValidWeekdays

SpecField == InitField /\ [][NextField]_vars

\* the bounds the claim gives for each field
ClaimedMin(name) == IF name \in {"has_valid_days", "has_valid_months"} THEN 1 ELSE 0

ClaimedMax(name, opts) ==
    CASE name \in {"has_valid_seconds", "has_valid_minutes"} -> 59
      [] name = "has_valid_hours" -> 23
      [] name = "has_valid_days" -> 31
      [] name = "has_valid_months" -> 12
      [] name = "has_valid_weekdays" -> IF opts.allowSevenAsSunday THEN 7 ELSE 6

\* C4: a field of decimal digits only is accepted by its field validator iff its
\* value lies within the bounds of the field.
C4_BareIntegerBounds ==
    /\ pc # "raised"
    /\ (pc = "returned" /\ fn \in FieldFunctions /\ IsNumber(arg)) =>
          (result <=> /\ ClaimedMin(fn) <= DecimalValue(arg)
                      /\ DecimalValue(arg) <= ClaimedMax(fn, options))

\* a two-digit field with a leading zero at the upper bound has been accepted
C4_Witness ==
    /\ pc = "returned" /\ fn = "has_valid_weekdays" /\ arg = <<"0", "7">>
    /\ options.allowSevenAsSunday /\ result

(***************************************************************************)
(* SpecName: has_valid_months and has_valid_weekdays on every name of      *)
(* their alias table, in every letter case, and on every table value.      *)
(***************************************************************************)
CaseVariants(name) ==
    {[i \in DOMAIN name |-> IF i \in S THEN UpperChar(name[i]) ELSE name[i]] :
        S \in SUBSET DOMAIN name}

NamesOf(table) == UNION {CaseVariants(name) : name \in DOMAIN table}

ValuesOf(table) == {table[name] : name \in DOMAIN table}

InitName ==
    /\ pc = "call"
    /\ \/ fn = "has_valid_months" /\ arg \in NamesOf(month_alias) \cup ValuesOf(month_alias)
       \/ fn = "has_valid_weekdays"
          /\ arg \in NamesOf(weekdays_alias) \cup ValuesOf(weekdays_alias)
    /\ options \in OptionsOf(fn)
    /\ start = 0
    /\ stop = 0
    /\ result = FALSE

NextName == HasValidMonths \/ HasValidWeekdays

SpecName == InitName /\ [][NextName]_vars

\* C5: with alias enabled a table name in any letter case is accepted, and so is its
\* table value, so the two calls agree; with alias disabled the name is rejected.
C5_AliasRoundTrip ==
    /\ (pc = "returned" /\ fn = "has_valid_months" /\ arg \in NamesOf(month_alias)) =>
          IF options.alias
          THEN result /\ (result <=> has_valid_months(month_alias[Lower(arg)], TRUE))
          ELSE ~result
    /\ (pc = "returned" /\ fn = "has_valid_weekdays" /\ arg \in NamesOf(weekdays_alias)) =>
          IF options.alias
          THEN result /\ (result <=> has_valid_weekdays(weekdays_alias[Lower(arg)], options))
          ELSE ~result
    /\ (pc = "returned" /\ fn = "has_valid_months" /\ arg \in ValuesOf(month_alias)) => result
    /\ (pc = "returned" /\ fn = "has_valid_weekdays" /\ arg \in ValuesOf(weekdays_alias)) =>
          result

\* a month name in mixed case has been accepted with alias enabled
C5_Witness ==
    /\ pc = "returned" /\ fn = "has_valid_months" /\ arg = <<"D", "e", "C">>
    /\ options.alias /\ result

(***************************************************************************)
(* SpecAlias: has_valid_months and has_valid_weekdays on fields made of at *)
(* most MaxTokens pieces (names, a lone letter, digits, '#', '-', '/') and *)
(* on the fields the tests use.  A field is a piece of split_cron's result *)
(* and so holds no whitespace.                                             *)
(***************************************************************************)
MaxTokens == 3

AliasTokens ==
    {<<"m", "o", "n">>,
     <<"f", "r", "i">>,
     <<"j", "a", "n">>,
     <<"f", "e", "b">>,
     <<"u">>,
     <<"1">>,
     <<"7">>,
     <<"#">>,
     <<"#", "2">>,
     <<"#", "6">>,
     <<"-">>,
     <<"/">>}

AliasExamples ==
    {<<"m", "o", "n", "-", "f", "r", "i", "#", "2">>,
     <<"m", "o", "n", "#", "2", "-", "f", "r", "i", "#", "2">>,
     <<"W", "E", "D", "#", "5">>,
     <<"W", "E", "D", "#", "6">>,
     <<"j", "a", "n", "u", "a", "r", "y">>,
     <<"s", "u", "n", "d", "a", "y">>,
     <<"1", "#", "0", "5">>,
     <<"s", "u", "n", "m", "o", "n", "#", "1">>}

RECURSIVE Flatten(_)
Flatten(ss) == IF ss = <<>> THEN <<>> ELSE Head(ss) \o Flatten(Tail(ss))

TokenStrings(tokens, n) == {Flatten(t) : t \in UNION {[1..k -> tokens] : k \in 1..n}}

InitAlias ==
    /\ pc = "call"
    /\ fn \in {"has_valid_months", "has_valid_weekdays"}
    /\ arg \in TokenStrings(AliasTokens, MaxTokens) \cup AliasExamples
    /\ options \in {o \in OptionsOf(fn) : ~o.allowBlankDay}
    /\ start = 0
    /\ stop = 0
    /\ result = FALSE

NextAlias == HasValidMonths \/ HasValidWeekdays

SpecAlias == InitAlias /\ [][NextAlias]_vars

\* the lengths of the maximal runs of alphabetic characters of s
AlphaRunLengths(s) ==
    LET runs == {r \in (DOMAIN s) \X (DOMAIN s) :
                    /\ r[1] <= r[2]
                    /\ \A k \in r[1]..r[2] : IsAlpha(s[k])
                    /\ (r[1] = 1 \/ ~IsAlpha(s[r[1] - 1]))
                    /\ (r[2] = Len(s) \/ ~IsAlpha(s[r[2] + 1]))}
    IN  {q[2] - q[1] + 1 : q \in runs}

AliasCall == pc = "returned" /\ fn \in {"has_valid_months", "has_valid_weekdays"}

\* C6 (as claimed): with alias enabled, a month or day-of-week field that contains a
\* maximal run of alphabetic characters of a length other than three is rejected.
C6_OnlyRunsOfThree ==
    (AliasCall /\ options.alias /\ AlphaRunLengths(arg) \ {3} # {}) => ~result

\* C7: with allowNthWeekdayOfMonth enabled, a day-of-week field that holds '#' after
\* alias resolution is valid iff it holds one '#', a number within the weekday bound
\* on its left and a number in 1..5 on its right; with the flag disabled every field
\* that holds '#' is rejected.
C7_NthWeekday ==
    (pc = "returned" /\ fn = "has_valid_weekdays" /\ CountChar(arg, "#") > 0) =>
        LET resolved == RemappedWeekdays(arg, options.alias)
            weekday == Before(resolved, "#")
            occurrence == After(resolved, "#")
        IN  IF options.allowNthWeekdayOfMonth
            THEN result <=> /\ CountChar(resolved, "#") = 1
                            /\ IsNumber(weekday)
                            /\ DecimalValue(weekday) <= ClaimedMax(fn, options)
                            /\ IsNumber(occurrence)
                            /\ 1 <= DecimalValue(occurrence)
                            /\ DecimalValue(occurrence) <= 5
            ELSE ~result

\* a compound form has been rejected with the flag and alias enabled
C7_Witness ==
    /\ pc = "returned" /\ fn = "has_valid_weekdays"
    /\ arg = <<"m", "o", "n", "-", "f", "r", "i", "#", "2">>
    /\ options.allowNthWeekdayOfMonth /\ options.alias /\ ~result

\* a name with an occurrence has been accepted with the flag and alias enabled
C7_WitnessAccepted ==
    /\ pc = "returned" /\ fn = "has_valid_weekdays"
    /\ arg = <<"m", "o", "n", "#", "2">>
    /\ options.allowNthWeekdayOfMonth /\ options.alias /\ result

(***************************************************************************)
(* SpecCron: is_valid_cron on expressions of at most MaxFields fields      *)
(* drawn from a wildcard, a blank-day marker and a number, separated and   *)
(* surrounded by whitespace in two layouts, under every option record.     *)
(***************************************************************************)
MaxFields == 7

CronPool == {<<"*">>, <<"?">>, <<"7">>}

\* <<leading, separator, trailing>> whitespace
Layouts == {<< <<>>, <<" ">>, <<>> >>, << <<"\t">>, <<" ", " ">>, <<"\n">> >>}

RECURSIVE JoinWith(_, _)
JoinWith(fields, sep) ==
    IF fields = <<>> THEN <<>>
    ELSE IF Len(fields) = 1 THEN fields[1]
    ELSE fields[1] \o sep \o JoinWith(Tail(fields), sep)

Expression(fields, layout) == layout[1] \o JoinWith(fields, layout[2]) \o layout[3]

InitCron ==
    /\ pc = "call"
    /\ fn = "is_valid_cron"
    /\ \E n \in 0..MaxFields : \E fields \in [1..n -> CronPool] : \E layout \in Layouts :
          arg = Expression(fields, layout)
    /\ options \in AllOptions
    /\ start = 0
    /\ stop = 0
    /\ result = FALSE

NextCron == IsValidCron

SpecCron == InitCron /\ [][NextCron]_vars

\* the number of maximal runs of non-whitespace characters of s
CountFields(s) ==
    Cardinality({i \in DOMAIN s : ~IsSpace(s[i]) /\ (i = 1 \/ IsSpace(s[i - 1]))})

CronCall == pc = "returned" /\ fn = "is_valid_cron"

\* C1: an expression with fewer than 5 fields, or with more fields than the maximum
\* (5, or 6 with the seconds option), is rejected.
C1_FieldCountOutOfRange ==
    (CronCall /\ (CountFields(arg) < 5
                  \/ CountFields(arg) > (IF options.seconds THEN 6 ELSE 5))) => ~result

\* six wildcard fields have been rejected with the seconds option disabled
C1_Witness ==
    /\ CronCall /\ ~options.seconds /\ ~result
    /\ arg = <<"*", " ", "*", " ", "*", " ", "*", " ", "*", " ", "*">>

\* the day-of-month and day-of-week fields of a five-field expression
DayField(s) == split_cron(s)[3]

WeekdayField(s) == split_cron(s)[5]

\* C3: in a five-field expression whose other fields are valid and whose day fields
\* are each '?' or valid, with at least one '?', the result is true iff
\* allowBlankDay is enabled and exactly one of the two day fields is '?'.
C3_BlankDayRule ==
    (/\ CronCall
     /\ CountFields(arg) = 5
     /\ has_valid_minutes(split_cron(arg)[1])
     /\ has_valid_hours(split_cron(arg)[2])
     /\ has_valid_months(split_cron(arg)[4], options.alias)
     /\ (DayField(arg) = <<"?">> \/ validate_for_range(DayField(arg), 1, 31))
     /\ \/ WeekdayField(arg) = <<"?">>
        \/ has_valid_weekdays(WeekdayField(arg), [options EXCEPT !.allowBlankDay = FALSE])
     /\ (DayField(arg) = <<"?">> \/ WeekdayField(arg) = <<"?">>))
    => (result <=> /\ options.allowBlankDay
                   /\ ~(DayField(arg) = <<"?">> /\ WeekdayField(arg) = <<"?">>))

\* '?' in both day fields has been rejected with allowBlankDay enabled
C3_Witness ==
    /\ CronCall /\ options.allowBlankDay /\ ~result
    /\ arg = <<"*", " ", "*", " ", "?", " ", "*", " ", "?">>

\* C8 (as claimed): an expression whose field count differs from the required count,
\* 5 without the seconds option and 6 with it, is rejected.
C8_RequiredFieldCount ==
    (CronCall /\ CountFields(arg) # (IF options.seconds THEN 6 ELSE 5)) => ~result

\* C8 (amended): without the seconds option every count other than 5 is rejected; with
\* it every count other than 5 and 6 is rejected, and a five-field expression gets
\* the result it gets without the seconds option.
C8_AllowedFieldCounts ==
    CronCall =>
        /\ (~options.seconds /\ CountFields(arg) # 5) => ~result
        /\ (options.seconds /\ CountFields(arg) \notin {5, 6}) => ~result
        /\ (options.seconds /\ CountFields(arg) = 5) =>
              (result <=> is_valid_cron(arg, [options EXCEPT !.seconds = FALSE]))

\* five wildcard fields have been accepted with the seconds option enabled
C8_Witness ==
    /\ CronCall /\ options.seconds /\ result
    /\ arg = <<"*", " ", "*", " ", "*", " ", "*", " ", "*">>

(***************************************************************************)
(* SpecTotal: is_valid_cron on the empty string, on whitespace, and on     *)
(* expressions in which one field (any of the five, or the seconds field   *)
(* of a six-field expression) is any non-empty string of at most           *)
(* MaxFieldLen characters (separators, a digit, a wildcard, a blank-day    *)
(* marker, a letter) and the others are wildcards; the options are every   *)
(* full record and two partial records.                                    *)
(***************************************************************************)
MaxFieldLen == 2

TotalAlphabet == {"1", ",", "-", "/", "#", "*", "?", "a"}

\* partial_options: a dict over some of the keys
PartialOptions ==
    AllOptions \cup {[seconds |-> TRUE], [alias |-> TRUE, allowNthWeekdayOfMonth |-> TRUE]}

Wildcards(n) == [i \in 1..n |-> <<"*">>]

\* <<number of fields, position of the field that varies>>
TotalShapes == {<<5, 1>>, <<5, 2>>, <<5, 3>>, <<5, 4>>, <<5, 5>>, <<6, 1>>}

TotalInputs ==
    {<<>>, <<" ">>, <<"\t", "\n">>} \cup
    {JoinWith([Wildcards(x[1][1]) EXCEPT ![x[1][2]] = x[2]], <<" ">>) :
        x \in TotalShapes \X (Strings(TotalAlphabet, MaxFieldLen) \ {<<>>})}

InitTotal ==
    /\ pc = "call"
    /\ fn = "is_valid_cron"
    /\ arg \in TotalInputs
    /\ options \in PartialOptions
    /\ start = 0
    /\ stop = 0
    /\ result = FALSE

NextTotal == IsValidCron

SpecTotal == InitTotal /\ [][NextTotal]_vars

\* the pieces the validators hand to safe_parse_int: the fields split on every separator
RECURSIVE Tokens(_, _)
Tokens(s, seps) ==
    IF seps = <<>> THEN {s}
    ELSE LET parts == Split(s, Head(seps))
         IN  UNION {Tokens(parts[i], Tail(seps)) : i \in DOMAIN parts}

TokensOf(cron) ==
    LET fields == split_cron(cron)
    IN  UNION {Tokens(fields[i], <<",", "/", "-", "#">>) : i \in DOMAIN fields}

\* C2: no call of is_valid_cron ends in a raised error, and a token that is not a
\* number parses to NaN, for which every bound comparison is false.
C2_Total ==
    /\ pc # "raised"
    /\ pc = "returned" =>
          /\ result \in BOOLEAN
          /\ \A t \in TokensOf(arg) :
                ~IsNumber(t) =>
                    LET v == safe_parse_int(t)
                    IN  /\ v = NaN
                        /\ ~safe_parse_int_raises(t)
                        /\ \A b \in FieldBounds : ~is_in_range(v, b[1], b[2])
                        /\ ~is_in_range(v, 1, 5)
                        /\ ~FloatGt(v, 0)
                        /\ ~FloatLe(v, v)

\* a field whose range has two empty sides has been rejected without an error
C2_Witness ==
    /\ pc = "returned" /\ fn = "is_valid_cron" /\ ~result
    /\ arg = <<"*", " ", "*", " ", "*", " ", "*", " ", "-">>

====
